---- MODULE Spec2Model ----
(***************************************************************************)
(* Model of httproxy (main.go): a reverse proxy built on                   *)
(* httputil.ReverseProxy with a Director (loadBalance, singleJoiningSlash, *)
(* basic auth, timeout context), a ModifyResponse hook (redirect           *)
(* following with cloneResponse) and an ErrorHandler.                      *)
(*                                                                         *)
(* Strings that the code inspects character by character (paths,           *)
(* credentials) are sequences of units: "/" (or ":") is one unit, every    *)
(* other unit stands for a non-empty run of other characters.              *)
(***************************************************************************)
EXTENDS Naturals, Sequences, FiniteSets

VARIABLES
    flags,              \* the -url values, as given
    phase,              \* main: "startup", "serving" or "panic"
    urls,               \* []*url.URL handed to newProxy
    timeout,            \* global timeout (ms), 0 = none
    errorResponseCode,  \* global errorResponseCode
    errorResponseBody,  \* global errorResponseBody
    followRedirects,    \* global followRedirects
    pc,                 \* per request: position in ReverseProxy.ServeHTTP
    inreq,              \* per request: the inbound request
    sel,                \* per request: the upstream loadBalance returned
    outreq,             \* per request: the outbound request after Director
    lat,                \* per request: time the upstream takes to answer
    upres,              \* per request: the response RoundTrip returned
    res,                \* per request: the response after ModifyResponse
    gets,               \* per request: requests http.Get issued
    rw,                 \* per request: what was written to the caller
    handled,            \* per request: number of ErrorHandler runs
    fail,               \* per request: the failure that ended the forwarding, or ""
    getreq,             \* per request: the request http.Get built, if any
    openBodies,         \* per request: the response bodies opened and not closed
    picked,             \* the upstreams a run of loadBalance calls has returned
    received,           \* per upstream host: requests that reached it
    joinA, joinB, joinOut, joinPc   \* a call of singleJoiningSlash

vars == <<flags, phase, urls, timeout, errorResponseCode, errorResponseBody, followRedirects,
          pc, inreq, sel, outreq, lat, upres, res, gets, rw, handled, fail, getreq, openBodies,
          picked, received,
          joinA, joinB, joinOut, joinPc>>

config == <<flags, timeout, errorResponseCode, errorResponseBody, followRedirects>>
joinVars == <<joinA, joinB, joinOut, joinPc>>
reqVars == <<pc, inreq, sel, outreq, lat, upres, res, gets, rw, handled, fail, getreq,
            openBodies, received>>

----------------------------------------------------------------------------
(* Bounds *)

MaxUpstreams == 2   \* length of the upstream list
MaxLen == 3         \* length of the strings singleJoiningSlash is tried on

\* the requests one proxy handles, concurrently
Reqs == {1, 2}

----------------------------------------------------------------------------
(* Strings *)

RECURSIVE StringsUpTo(_, _)
StringsUpTo(alphabet, n) ==
    IF n = 0 THEN {<<>>}
    ELSE LET shorter == StringsUpTo(alphabet, n - 1)
         IN  shorter \cup {Append(s, c) : s \in {t \in shorter : Len(t) = n - 1}, c \in alphabet}

HasSuffixSlash(a) == Len(a) > 0 /\ a[Len(a)] = "/"
HasPrefixSlash(b) == Len(b) > 0 /\ b[1] = "/"

\* a + "/" + b: the separating slash is always inserted
singleJoiningSlashAlwaysInsert(a, b) ==
    IF HasSuffixSlash(a) /\ HasPrefixSlash(b) THEN a \o Tail(b)
    ELSE a \o <<"/">> \o b

\* a + b: plain concatenation
singleJoiningSlashConcat(a, b) == a \o b

singleJoiningSlash(a, b) ==
    LET aslash == HasSuffixSlash(a)
        bslash == HasPrefixSlash(b)
    IN  IF aslash /\ bslash THEN a \o Tail(b)
        ELSE IF ~aslash /\ ~bslash THEN a \o <<"/">> \o b
        ELSE a \o b

----------------------------------------------------------------------------
(* URLs, requests, responses *)

NoUser == [set |-> FALSE, Username |-> <<>>, Password |-> <<>>, PasswordSet |-> FALSE]
UserPass(n, p) == [set |-> TRUE, Username |-> n, Password |-> p, PasswordSet |-> TRUE]
UserOnly(n) == [set |-> TRUE, Username |-> n, Password |-> <<>>, PasswordSet |-> FALSE]

URL(scheme, host, path, user) ==
    [Scheme |-> scheme, Host |-> host, Path |-> path, User |-> user]

\* the zero url.URL, which is no configured target
ZeroURL == URL("", "", <<>>, NoUser)

\* The upstreams a list is drawn from.  Host h3 refuses connections.
Upstreams ==
    { URL("http", "h1", <<>>, NoUser),
      URL("https", "h2", <<"/", "api", "/", "v1", "/">>, UserPass(<<"user">>, <<"pass">>)),
      URL("http", "h3", <<"/", "api">>, UserOnly(<<"bob">>)) }

Hosts == {u.Host : u \in Upstreams}
DeadHosts == {"h3"}
Healthy(u) == u.Host \notin DeadHosts

\* url.Parse on the -url values of the model: err, or the URL it returns.
\* "h4/api" has no scheme and parses as a path; "://invalid-url" does not parse.
urlParse(s) ==
    CASE s = "http://h1" -> [err |-> FALSE, url |-> URL("http", "h1", <<>>, NoUser)]
      [] s = "https://user:pass@h2/api/v1/" ->
            [err |-> FALSE,
             url |-> URL("https", "h2", <<"/", "api", "/", "v1", "/">>,
                         UserPass(<<"user">>, <<"pass">>))]
      [] s = "http://bob@h3/api" ->
            [err |-> FALSE, url |-> URL("http", "h3", <<"/", "api">>, UserOnly(<<"bob">>))]
      [] s = "h4/api" -> [err |-> FALSE, url |-> URL("", "", <<"h4", "/", "api">>, NoUser)]
      [] OTHER -> [err |-> TRUE, url |-> ZeroURL]

AbsoluteEntries == {"http://h1", "https://user:pass@h2/api/v1/", "http://bob@h3/api"}
Entries == AbsoluteEntries \cup {"h4/api", "://invalid-url"}

\* the lists of distinct entries, the empty one included (a repeated -url adds no target)
ListsOver(E) ==
    {l \in UNION {[1..n -> E] : n \in 0..MaxUpstreams} :
        \A i, j \in DOMAIN l : l[i] = l[j] => i = j}

Range(s) == {s[i] : i \in DOMAIN s}

NoAuth == [scheme |-> "", cred |-> <<>>]
InboundAuths == {NoAuth, [scheme |-> "Bearer", cred |-> <<"tok">>]}
InboundPaths == {<<"/">>, <<"/", "users">>}
\* the inbound requests of the model: both paths and both Authorization values occur
InboundRequests ==
    { [Method |-> "GET", Path |-> <<"/">>, RawQuery |-> "", Body |-> "",
       Authorization |-> NoAuth, XRequestId |-> ""],
      [Method |-> "POST", Path |-> <<"/", "users">>, RawQuery |-> "a=1", Body |-> "payload",
       Authorization |-> [scheme |-> "Bearer", cred |-> <<"tok">>], XRequestId |-> "id7"] }

NoInbound == [Method |-> "", Path |-> <<>>, RawQuery |-> "", Body |-> "",
              Authorization |-> NoAuth, XRequestId |-> ""]

\* the context of the inbound request: no deadline, cancelled when the caller
\* goes (caller)
NoCtx == [deadline |-> 0, cancelled |-> FALSE, caller |-> TRUE]

\* context.Background(): no deadline, never cancelled
Background == [deadline |-> 0, cancelled |-> FALSE, caller |-> FALSE]

NoReq == [Method |-> "", Scheme |-> "", URLHost |-> "", Host |-> "", Path |-> <<>>,
          RawQuery |-> "", Body |-> "", Authorization |-> NoAuth, XRequestId |-> "",
          ctx |-> NoCtx]

HeaderNames == {"Location", "Content-Length", "Content-Encoding", "Content-Type", "X-Up",
                "Set-Cookie"}
NoHeader == [h \in HeaderNames |-> ""]

Response(code, status, body, hdr) ==
    [StatusCode |-> code, Status |-> status, Body |-> body,
     ContentLength |-> hdr["Content-Length"], Header |-> hdr]

NoResponse == Response(0, "", "", NoHeader)

\* What a healthy upstream may answer.
UpstreamResponses ==
    { Response(200, "200 OK", "backend response",
               [NoHeader EXCEPT !["Content-Type"] = "text/plain", !["Content-Length"] = "16",
                                !["X-Up"] = "up"]),
      Response(302, "302 Found", "redirect response",
               [NoHeader EXCEPT !["Location"] = "http://t1", !["Content-Type"] = "text/html",
                                !["Content-Length"] = "17", !["Content-Encoding"] = "gzip",
                                !["X-Up"] = "up"]),
      Response(302, "302 Found", "redirect response",
               [NoHeader EXCEPT !["Location"] = "http://t2", !["Content-Length"] = "17"]),
      Response(302, "302 Found", "redirect response",
               [NoHeader EXCEPT !["Location"] = "http://t3", !["Content-Length"] = "17"]),
      Response(302, "302 Found", "redirect response",
               [NoHeader EXCEPT !["Location"] = "://bad", !["Content-Length"] = "17",
                                !["X-Up"] = "up"]),
      Response(201, "201 Created", "created",
               [NoHeader EXCEPT !["Location"] = "http://t1", !["Content-Type"] = "text/html",
                                !["Content-Length"] = "7", !["X-Up"] = "up"]) }

\* The redirect targets: t1 answers, t2 refuses connections, t3 redirects to t1.
TargetResponse(loc) ==
    IF loc = "http://t1"
    THEN Response(200, "200 OK", "final response",
                  [NoHeader EXCEPT !["Content-Type"] = "text/plain", !["Content-Length"] = "14",
                                   !["Set-Cookie"] = "sid=1", !["Location"] = "http://t1/self"])
    ELSE IF loc = "http://t3"
    THEN Response(301, "301 Moved Permanently", "moved",
                  [NoHeader EXCEPT !["Location"] = "http://t1", !["Content-Type"] = "text/html",
                                   !["Content-Length"] = "5"])
    ELSE NoResponse
TargetReachable(loc) == loc \in {"http://t1", "http://t3"}

\* what can go wrong between sending the request and the response header
Hazards == {"", "malformed response", "caller gone"}

\* http.Server.WriteTimeout, in ms like timeout
defaultWriteTimeout == 30000

\* ms until the upstream answers: below the timeout, or above it and above
\* the server's write timeout
Latencies == {1, 40000}
Timeouts == {0, 2}
ErrorCodes == {502, 503}
ErrorBodies == {"", "Custom error message"}

NoRw == [written |-> FALSE, Code |-> 0, Body |-> "", Header |-> NoHeader, aborted |-> FALSE]

----------------------------------------------------------------------------
(* loadBalance: targets[rand.IntN(len(targets))]; the set of values it can return *)

loadBalanceOrZero(targets) ==
    {targets[i + 1] : i \in 0..(Len(targets) - 1)} \cup {ZeroURL}

\* always the first target
loadBalanceFirst(targets) == {targets[1]}

loadBalance(targets) ==
    {targets[i + 1] : i \in 0..(Len(targets) - 1)}

----------------------------------------------------------------------------
(* Director *)

\* req.SetBasicAuth: "Basic " + base64(username + ":" + password)
basicAuth(username, password) ==
    [scheme |-> "Basic", cred |-> username \o <<":">> \o password]

\* the inbound Authorization header is kept
directorAuthKeepInbound(in, u) == in.Authorization

directorAuth(in, u) ==
    IF u.User.set /\ u.User.PasswordSet
    THEN basicAuth(u.User.Username, u.User.Password)
    ELSE in.Authorization

\* context.WithTimeout(parent, d) and its cancel function
contextWithTimeout(parent, d) ==
    [deadline |-> d, cancelled |-> parent.cancelled, caller |-> parent.caller]
cancel(ctx) == [ctx EXCEPT !.cancelled = TRUE]

\* no deadline is attached
directorContextNone(parent) == parent

\* ctx, cancel := context.WithTimeout(...); defer cancel(); *req = *req.WithContext(ctx)
\* the deferred cancel has run when the Director returns
directorContext(parent) ==
    IF timeout > 0
    THEN cancel(contextWithTimeout(parent, timeout))
    ELSE parent

\* the path of the upstream is used as it is
directorPathBase(in, u) == u.Path

directorPath(in, u) == singleJoiningSlash(u.Path, in.Path)

\* the Host header is left empty
directorHostNone(u) == ""

directorHost(u) == u.Host

\* the joined path is written to the target itself
directorTargetsJoined(targets, u, in) ==
    [i \in DOMAIN targets |->
        IF targets[i] = u THEN [u EXCEPT !.Path = singleJoiningSlash(u.Path, in.Path)]
        ELSE targets[i]]

\* the target list after the Director: it assigns to req only, u is read
directorTargets(targets, u, in) == targets

\* a new GET is built from the target and the inbound path
directorFresh(in, u) ==
    [Method        |-> "GET",
     Scheme        |-> u.Scheme,
     URLHost       |-> u.Host,
     Path          |-> directorPath(in, u),
     Host          |-> directorHost(u),
     RawQuery      |-> "",
     Body          |-> "",
     Authorization |-> directorAuth(in, u),
     XRequestId    |-> "",
     ctx           |-> directorContext(NoCtx)]

\* the fields the Director assigns; the others are the inbound request's
director(in, u) ==
    [Method        |-> in.Method,
     Scheme        |-> u.Scheme,
     URLHost       |-> u.Host,
     Path          |-> directorPath(in, u),
     Host          |-> directorHost(u),
     RawQuery      |-> in.RawQuery,
     Body          |-> in.Body,
     Authorization |-> directorAuth(in, u),
     XRequestId    |-> in.XRequestId,
     ctx           |-> directorContext(NoCtx)]

----------------------------------------------------------------------------
(* ModifyResponse and ErrorHandler *)

\* a header the other response lacks is left as it is
replaceHeaderKeepStale(to, from, header) ==
    IF from.Header[header] # ""
    THEN [to EXCEPT !.Header[header] = from.Header[header]]
    ELSE to

replaceHeader(to, from, header) ==
    IF from.Header[header] # ""
    THEN [to EXCEPT !.Header[header] = from.Header[header]]
    ELSE [to EXCEPT !.Header[header] = ""]

\* the Location header is left in place
cloneResponseKeepLocation(to, from) ==
    LET t0 == [to EXCEPT !.Status = from.Status, !.StatusCode = from.StatusCode,
                         !.Body = from.Body, !.ContentLength = from.ContentLength]
        t1 == replaceHeader(t0, from, "Content-Length")
        t2 == replaceHeader(t1, from, "Content-Encoding")
    IN  replaceHeader(t2, from, "Content-Type")

\* the follow-up's header replaces the upstream's
cloneResponseAllHeaders(to, from) ==
    [to EXCEPT !.Status = from.Status, !.StatusCode = from.StatusCode,
               !.Body = from.Body, !.ContentLength = from.ContentLength,
               !.Header = from.Header]

cloneResponse(to, from) ==
    LET t0 == [to EXCEPT !.Status = from.Status, !.StatusCode = from.StatusCode,
                         !.Body = from.Body, !.ContentLength = from.ContentLength]
        t1 == replaceHeader(t0, from, "Content-Length")
        t2 == replaceHeader(t1, from, "Content-Encoding")
        t3 == replaceHeader(t2, from, "Content-Type")
    IN  [t3 EXCEPT !.Header["Location"] = ""]

\* Location values url.Parse rejects
UnparseableLocations == {"://bad"}

\* resp.Location(): ErrNoLocation without the header, the parse error, or the URL
respLocation(resp) ==
    IF resp.Header["Location"] = ""
    THEN [err |-> "ErrNoLocation", loc |-> ""]
    ELSE IF resp.Header["Location"] \in UnparseableLocations
    THEN [err |-> "parse", loc |-> ""]
    ELSE [err |-> "", loc |-> resp.Header["Location"]]

\* http.Client: a response is a redirect to follow when it is 3xx with a Location
IsRedirect(r) == r.StatusCode \in {301, 302, 303, 307, 308} /\ r.Header["Location"] # ""

\* http.Client's default policy stops after this many redirects
DefaultMaxRedirects == 10

\* the default client's Get, n redirects followed so far.
\* err: it failed; res: the response it returns; sent: the requests it sent
RECURSIVE clientGet(_, _)
clientGet(loc, n) ==
    IF ~TargetReachable(loc)
    THEN [err |-> TRUE, res |-> NoResponse, sent |-> <<loc>>]
    ELSE LET r == TargetResponse(loc)
         IN  IF ~IsRedirect(r)
             THEN [err |-> FALSE, res |-> r, sent |-> <<loc>>]
             ELSE IF n >= DefaultMaxRedirects
             THEN [err |-> TRUE, res |-> NoResponse, sent |-> <<loc>>]
             ELSE LET next == clientGet(r.Header["Location"], n + 1)
                  IN  [next EXCEPT !.sent = <<loc>> \o @]

\* one request, the target's own answer is returned
httpGetOneHop(loc) ==
    IF ~TargetReachable(loc)
    THEN [err |-> TRUE, res |-> NoResponse, sent |-> <<loc>>]
    ELSE [err |-> FALSE, res |-> TargetResponse(loc), sent |-> <<loc>>]

\* http.Get(u.String())
httpGet(loc) == clientGet(loc, 0)

NoGet == [Method |-> "", URL |-> "", Body |-> "", Authorization |-> NoAuth,
          XRequestId |-> "", ctx |-> Background]

\* the outbound request's method, body, headers and context are reused
followRequestFromOutbound(out, loc) ==
    [Method |-> out.Method, URL |-> loc, Body |-> out.Body,
     Authorization |-> out.Authorization, XRequestId |-> out.XRequestId, ctx |-> out.ctx]

\* the request of http.Get(loc): http.NewRequest("GET", loc, nil), under
\* context.Background(); nothing of resp.Request (out) goes into it
followRequest(out, loc) ==
    [Method |-> "GET", URL |-> loc, Body |-> "", Authorization |-> NoAuth,
     XRequestId |-> "", ctx |-> Background]

\* the follow flag is not consulted
modifierAlwaysFollow(resp) ==
    IF respLocation(resp).err = "ErrNoLocation"
    THEN [err |-> FALSE, res |-> resp, gets |-> <<>>]
    ELSE IF respLocation(resp).err # ""
    THEN [err |-> TRUE, res |-> resp, gets |-> <<>>]
    ELSE LET g == httpGet(respLocation(resp).loc)
         IN  IF g.err
             THEN [err |-> TRUE, res |-> resp, gets |-> g.sent]
             ELSE [err |-> FALSE, res |-> cloneResponse(resp, g.res), gets |-> g.sent]

\* a failed http.Get is not reported
modifierSwallowError(resp) ==
    IF ~followRedirects
    THEN [err |-> FALSE, res |-> resp, gets |-> <<>>]
    ELSE IF respLocation(resp).err = "ErrNoLocation"
    THEN [err |-> FALSE, res |-> resp, gets |-> <<>>]
    ELSE IF respLocation(resp).err # ""
    THEN [err |-> TRUE, res |-> resp, gets |-> <<>>]
    ELSE LET g == httpGet(respLocation(resp).loc)
         IN  IF g.err
             THEN [err |-> FALSE, res |-> resp, gets |-> g.sent]
             ELSE [err |-> FALSE, res |-> cloneResponse(resp, g.res), gets |-> g.sent]

\* a Location that does not parse is passed over
modifierBadLocationNoOp(resp) ==
    IF ~followRedirects
    THEN [err |-> FALSE, res |-> resp, gets |-> <<>>]
    ELSE IF respLocation(resp).err # ""
    THEN [err |-> FALSE, res |-> resp, gets |-> <<>>]
    ELSE LET g == httpGet(respLocation(resp).loc)
         IN  IF g.err
             THEN [err |-> TRUE, res |-> resp, gets |-> g.sent]
             ELSE [err |-> FALSE, res |-> cloneResponse(resp, g.res), gets |-> g.sent]

\* a response without Location is an error
modifierNoLocationIsError(resp) ==
    IF ~followRedirects
    THEN [err |-> FALSE, res |-> resp, gets |-> <<>>]
    ELSE IF respLocation(resp).err # ""
    THEN [err |-> TRUE, res |-> resp, gets |-> <<>>]
    ELSE LET g == httpGet(respLocation(resp).loc)
         IN  IF g.err
             THEN [err |-> TRUE, res |-> resp, gets |-> g.sent]
             ELSE [err |-> FALSE, res |-> cloneResponse(resp, g.res), gets |-> g.sent]

\* err: the modifier returned an error; res: the response it leaves;
\* gets: the requests http.Get sent
modifier(resp) ==
    IF ~followRedirects
    THEN [err |-> FALSE, res |-> resp, gets |-> <<>>]
    ELSE IF respLocation(resp).err = "ErrNoLocation"
    THEN [err |-> FALSE, res |-> resp, gets |-> <<>>]
    ELSE IF respLocation(resp).err # ""
    THEN [err |-> TRUE, res |-> resp, gets |-> <<>>]
    ELSE LET g == httpGet(respLocation(resp).loc)
         IN  IF g.err
             THEN [err |-> TRUE, res |-> resp, gets |-> g.sent]
             ELSE [err |-> FALSE, res |-> cloneResponse(resp, g.res), gets |-> g.sent]

\* the body res.Body is after the modifier: cloneResponse puts the follow-up's
\* in the place of the upstream's (to.Body = from.Body)
resBody(m) == IF ~m.err /\ m.gets # <<>> THEN "follow" ELSE "upstream"

\* the bodies open after the modifier: the upstream's, and the follow-up's when
\* http.Get returned a response
bodiesOpened(m) == {"upstream"} \cup (IF ~m.err /\ m.gets # <<>> THEN {"follow"} ELSE {})

\* http.StatusBadGateway whatever errorResponseCode is, and no body
errorHandlerDefault(w) ==
    [w EXCEPT !.written = TRUE, !.Code = 502]

errorHandler(w) ==
    LET w1 == [w EXCEPT !.written = TRUE, !.Code = errorResponseCode]
    IN  IF errorResponseBody # ""
        THEN [w1 EXCEPT !.Body = errorResponseBody]
        ELSE w1

\* ReverseProxy: copyHeader, rw.WriteHeader(res.StatusCode), copyResponse
writeResponse(w, r) ==
    [w EXCEPT !.written = TRUE, !.Code = r.StatusCode, !.Body = r.Body, !.Header = r.Header]

\* the ErrorHandler is run although the header is out
abortResponseThenError(w, r) ==
    [w EXCEPT !.written = TRUE, !.Code = errorResponseCode, !.Body = errorResponseBody,
              !.Header = r.Header, !.aborted = TRUE]

\* ReverseProxy when copyResponse fails: the header is out, the body is cut
\* short and the handler panics with http.ErrAbortHandler
abortResponse(w, r) ==
    [w EXCEPT !.written = TRUE, !.Code = r.StatusCode, !.Body = "", !.Header = r.Header,
              !.aborted = TRUE]

----------------------------------------------------------------------------
(* Transport.RoundTrip of the outbound request *)

\* the server sets the connection's write deadline when it has read the
\* request; elapsed: ms since then
writeDeadlinePassed(elapsed) == elapsed >= defaultWriteTimeout

\* err: "" or the failure; reached: whether the upstream received the request
roundTrip(out, l, answer, hazard) ==
    IF out.ctx.cancelled
    THEN [err |-> "context canceled", reached |-> FALSE, res |-> NoResponse]
    ELSE IF out.URLHost \notin Hosts \ DeadHosts
    THEN [err |-> "dial", reached |-> FALSE, res |-> NoResponse]
    ELSE IF out.ctx.deadline > 0 /\ l >= out.ctx.deadline
    THEN [err |-> "context deadline exceeded", reached |-> TRUE, res |-> NoResponse]
    ELSE IF hazard # ""
    THEN [err |-> hazard, reached |-> TRUE, res |-> NoResponse]
    ELSE [err |-> "", reached |-> TRUE, res |-> answer]

----------------------------------------------------------------------------
(* The proxy *)

RECURSIVE toURLsLoop(_, _, _)
toURLsLoop(fl, i, acc) ==
    IF i > Len(fl)
    THEN [panic |-> FALSE, urls |-> acc]
    ELSE LET p == urlParse(fl[i])
         IN  IF p.err
             THEN [panic |-> TRUE, urls |-> <<>>]
             ELSE toURLsLoop(fl, i + 1, Append(acc, p.url))

toURLs(fl) == toURLsLoop(fl, 1, <<>>)

\* the length of the list is not checked
mainNoCheck(fl) == toURLs(fl)

\* main: panic if len(urls) == 0, else newProxy(urls.toURLs())
main(fl) ==
    IF Len(fl) = 0
    THEN [panic |-> TRUE, urls |-> <<>>]
    ELSE toURLs(fl)

\* the error response is the default one or overridden in code and body
Configs ==
    {c \in [flags : ListsOver(AbsoluteEntries), timeout : Timeouts,
            errorResponseCode : ErrorCodes, errorResponseBody : ErrorBodies,
            followRedirects : BOOLEAN] :
        (c.errorResponseCode = 502) <=> (c.errorResponseBody = "")}

ReqInit ==
    /\ pc = [r \in Reqs |-> "idle"]
    /\ inreq = [r \in Reqs |-> NoInbound]
    /\ sel = [r \in Reqs |-> ZeroURL]
    /\ outreq = [r \in Reqs |-> NoReq]
    /\ lat = [r \in Reqs |-> 0]
    /\ upres = [r \in Reqs |-> NoResponse]
    /\ res = [r \in Reqs |-> NoResponse]
    /\ gets = [r \in Reqs |-> <<>>]
    /\ rw = [r \in Reqs |-> NoRw]
    /\ handled = [r \in Reqs |-> 0]
    /\ fail = [r \in Reqs |-> ""]
    /\ getreq = [r \in Reqs |-> NoGet]
    /\ openBodies = [r \in Reqs |-> {}]
    /\ received = [h \in Hosts |-> 0]

JoinOff ==
    /\ joinA = <<>>
    /\ joinB = <<>>
    /\ joinOut = <<>>
    /\ joinPc = "off"

\* the process starts: flags parsed, nothing built yet
Init ==
    /\ \E c \in Configs :
        /\ flags = c.flags
        /\ timeout = c.timeout
        /\ errorResponseCode = c.errorResponseCode
        /\ errorResponseBody = c.errorResponseBody
        /\ followRedirects = c.followRedirects
    /\ phase = "startup"
    /\ urls = <<>>
    /\ picked = {}
    /\ ReqInit
    /\ JoinOff

\* main up to ListenAndServe, or its panic
Start ==
    /\ phase = "startup"
    /\ LET m == main(flags)
       IN  /\ phase' = IF m.panic THEN "panic" ELSE "serving"
           /\ urls' = m.urls
    /\ UNCHANGED <<config, reqVars, picked, joinVars>>

\* ServeHTTP up to the return of the Director; rand.IntN(0) panics
Serve(r) ==
    /\ phase = "serving"
    /\ pc[r] = "idle"
    /\ IF Len(urls) = 0
       THEN /\ pc' = [pc EXCEPT ![r] = "panic"]
            /\ UNCHANGED <<inreq, sel, outreq, urls>>
       ELSE /\ \E in \in InboundRequests, u \in loadBalance(urls) :
                /\ inreq' = [inreq EXCEPT ![r] = in]
                /\ sel' = [sel EXCEPT ![r] = u]
                /\ outreq' = [outreq EXCEPT ![r] = director(in, u)]
                /\ urls' = directorTargets(urls, u, in)
            /\ pc' = [pc EXCEPT ![r] = "directed"]
    /\ UNCHANGED <<lat, upres, res, gets, rw, handled, fail, getreq, openBodies, received,
                   config, phase, picked, joinVars>>

\* transport.RoundTrip(outreq); on failure the ErrorHandler ends the request
RoundTrip(r) ==
    /\ pc[r] = "directed"
    /\ \E l \in Latencies, answer \in UpstreamResponses, hazard \in Hazards :
        LET t == roundTrip(outreq[r], l, answer, hazard)
        IN  /\ lat' = [lat EXCEPT ![r] = l]
            /\ received' = IF t.reached
                           THEN [received EXCEPT ![outreq[r].URLHost] = @ + 1]
                           ELSE received
            /\ fail' = [fail EXCEPT ![r] = t.err]
            /\ IF t.err # ""
               THEN /\ rw' = [rw EXCEPT ![r] = errorHandler(rw[r])]
                    /\ handled' = [handled EXCEPT ![r] = @ + 1]
                    /\ pc' = [pc EXCEPT ![r] = "done"]
                    /\ UNCHANGED <<upres, openBodies>>
               ELSE /\ upres' = [upres EXCEPT ![r] = t.res]
                    /\ openBodies' = [openBodies EXCEPT ![r] = {"upstream"}]
                    /\ pc' = [pc EXCEPT ![r] = "responded"]
                    /\ UNCHANGED <<rw, handled>>
    /\ UNCHANGED <<inreq, sel, outreq, res, gets, getreq, config, phase, urls, picked,
                   joinVars>>

\* ModifyResponse, then either the ErrorHandler runs or the response is
\* written; ReverseProxy closes res.Body on each of these ways;
\* copying the body to the caller may fail, and fails once the
\* connection's write deadline has passed
ModifyResponse(r) ==
    /\ pc[r] = "responded"
    /\ LET m == modifier(upres[r])
       IN  /\ gets' = [gets EXCEPT ![r] = m.gets]
           /\ getreq' = [getreq EXCEPT ![r] = IF m.gets = <<>> THEN NoGet
                                               ELSE followRequest(outreq[r], m.gets[1])]
           /\ res' = [res EXCEPT ![r] = m.res]
           /\ openBodies' = [openBodies EXCEPT ![r] = bodiesOpened(m) \ {resBody(m)}]
           /\ IF m.err
              THEN /\ rw' = [rw EXCEPT ![r] = errorHandler(rw[r])]
                   /\ handled' = [handled EXCEPT ![r] = @ + 1]
                   /\ fail' = [fail EXCEPT ![r] = IF m.gets = <<>> THEN "location"
                                                   ELSE "follow"]
              ELSE /\ \E copyErr \in BOOLEAN :
                        IF writeDeadlinePassed(lat[r])
                        THEN /\ rw' = [rw EXCEPT ![r] = abortResponse(rw[r], m.res)]
                             /\ fail' = [fail EXCEPT ![r] = "write timeout"]
                        ELSE IF copyErr
                        THEN /\ rw' = [rw EXCEPT ![r] = abortResponse(rw[r], m.res)]
                             /\ fail' = [fail EXCEPT ![r] = "copy"]
                        ELSE /\ rw' = [rw EXCEPT ![r] = writeResponse(rw[r], m.res)]
                             /\ UNCHANGED fail
                   /\ UNCHANGED handled
    /\ pc' = [pc EXCEPT ![r] = "done"]
    /\ UNCHANGED <<inreq, sel, outreq, lat, upres, received, config, phase, urls, picked,
                   joinVars>>

Next == Start \/ \E r \in Reqs : Serve(r) \/ RoundTrip(r) \/ ModifyResponse(r)

Spec == Init /\ [][Next]_vars

----------------------------------------------------------------------------
(* singleJoiningSlash on its own, over all strings up to MaxLen *)

JoinStrings == StringsUpTo({"/", "a"}, MaxLen)

JoinInit ==
    /\ flags = <<"http://h1">>
    /\ phase = "serving"
    /\ urls = <<URL("http", "h1", <<>>, NoUser)>>
    /\ picked = {}
    /\ timeout = 0
    /\ errorResponseCode = 502
    /\ errorResponseBody = ""
    /\ followRedirects = FALSE
    /\ ReqInit
    /\ joinA \in JoinStrings
    /\ joinB \in JoinStrings
    /\ joinOut = <<>>
    /\ joinPc = "call"

JoinCall ==
    /\ joinPc = "call"
    /\ joinOut' = singleJoiningSlash(joinA, joinB)
    /\ joinPc' = "ret"
    /\ UNCHANGED <<joinA, joinB, config, phase, urls, picked, reqVars>>

JoinNext == JoinCall

SpecJoin == JoinInit /\ [][JoinNext]_vars

----------------------------------------------------------------------------
(* Startup over every kind of -url value, one configuration *)

StartupInit ==
    /\ flags \in ListsOver(Entries)
    /\ timeout = 0
    /\ errorResponseCode = 502
    /\ errorResponseBody = ""
    /\ followRedirects = FALSE
    /\ phase = "startup"
    /\ urls = <<>>
    /\ picked = {}
    /\ ReqInit
    /\ JoinOff

SpecStartup == StartupInit /\ [][Next]_vars

----------------------------------------------------------------------------
(* loadBalance called again and again by a serving proxy.  rand.IntN returns *)
(* every index with positive probability at each call, so no index is left  *)
(* out for ever: weak fairness of each result.                              *)

Select(u) ==
    /\ phase = "serving"
    /\ u \in loadBalance(urls)
    /\ picked' = picked \cup {u}
    /\ UNCHANGED <<config, phase, urls, reqVars, joinVars>>

SelectNext == Start \/ \E u \in Upstreams : Select(u)

SpecSelect ==
    /\ Init
    /\ [][SelectNext]_vars
    /\ WF_vars(Start)
    /\ \A u \in Upstreams : WF_vars(Select(u))

----------------------------------------------------------------------------
(* Properties *)

\* failures of the write to the caller after the response header
CopyFailures == {"copy", "write timeout"}

Past(r) == pc[r] # "idle"

RECURSIVE SumOver(_, _)
SumOver(f, S) ==
    IF S = {} THEN 0
    ELSE LET x == CHOOSE y \in S : TRUE
         IN  f[x] + SumOver(f, S \ {x})

StripTrailingSlash(a) == IF HasSuffixSlash(a) THEN SubSeq(a, 1, Len(a) - 1) ELSE a
StripLeadingSlash(b) == IF HasPrefixSlash(b) THEN SubSeq(b, 2, Len(b)) ELSE b
JoinTable(a, b) == StripTrailingSlash(a) \o <<"/">> \o StripLeadingSlash(b)

\* the error response the configuration asks for, and nothing else
IsErrorResponse(w) ==
    /\ w.written
    /\ w.Code = errorResponseCode
    /\ w.Body = errorResponseBody
    /\ w.Header = NoHeader

\* C1: for every non-empty upstream list, the upstream loadBalance returned
\* for a request is an element of that list.
C1_SelectedIsMember ==
    \A r \in Reqs : Past(r) => \E i \in 1..Len(urls) : sel[r] = urls[i]

C1_Witness ==
    \E r \in Reqs : Past(r) /\ Len(urls) = 2 /\ urls[1] # urls[2] /\ sel[r] = urls[2]

\* C2: over healthy upstreams, every request that has gone through the round
\* trip was received exactly once: the upstreams together received as many
\* requests as the proxy forwarded.
C2_OneForwardPerRequest ==
    (\A i \in 1..Len(urls) : Healthy(urls[i]))
        => SumOver(received, Hosts) = Cardinality({r \in Reqs : pc[r] \in {"responded", "done"}})

\* C3: singleJoiningSlash(a, b) is a without one trailing slash, "/", and b
\* without one leading slash; in particular "" and "" give "/".
C3_JoinMatchesTable ==
    joinPc = "ret" =>
        /\ joinOut = JoinTable(joinA, joinB)
        /\ (HasSuffixSlash(joinA) /\ HasPrefixSlash(joinB) => joinOut = joinA \o Tail(joinB))
        /\ (~HasSuffixSlash(joinA) /\ ~HasPrefixSlash(joinB) => joinOut = joinA \o <<"/">> \o joinB)
        /\ (HasSuffixSlash(joinA) # HasPrefixSlash(joinB) => joinOut = joinA \o joinB)
        /\ (joinA = <<>> /\ joinB = <<>> => joinOut = <<"/">>)

C3_Witness ==
    /\ joinPc = "ret"
    /\ joinA = <<"/", "a", "/">>
    /\ joinB = <<"/", "a">>
    /\ joinOut = <<"/", "a", "/", "a">>

\* C4: the outbound request has the scheme, host and Host header of the one
\* upstream selected for it and the path join(upstream path, inbound path);
\* base /api/v1/ gives /api/v1/users for /users and /api/v1/ for /.
C4_DirectorTargetsSelected ==
    \A r \in Reqs : Past(r) =>
        /\ outreq[r].Scheme = sel[r].Scheme
        /\ outreq[r].URLHost = sel[r].Host
        /\ outreq[r].Host = sel[r].Host
        /\ outreq[r].Path = JoinTable(sel[r].Path, inreq[r].Path)
        /\ (sel[r].Path = <<"/", "api", "/", "v1", "/">> /\ inreq[r].Path = <<"/", "users">>
                => outreq[r].Path = <<"/", "api", "/", "v1", "/", "users">>)
        /\ (sel[r].Path = <<"/", "api", "/", "v1", "/">> /\ inreq[r].Path = <<"/">>
                => outreq[r].Path = <<"/", "api", "/", "v1", "/">>)

C4_Witness ==
    \E r \in Reqs :
        /\ Past(r)
        /\ Len(urls) = 2 /\ urls[1] # urls[2]
        /\ sel[r].Path = <<"/", "api", "/", "v1", "/">>
        /\ inreq[r].Path = <<"/", "users">>
        /\ outreq[r].Path = <<"/", "api", "/", "v1", "/", "users">>
        /\ outreq[r].Host = "h2"

\* C5: when the selected upstream embeds user:pass, the outbound request's
\* Authorization is Basic for that upstream's user and pass, whatever
\* Authorization the inbound request had.
C5_BasicAuthOfSelected ==
    \A r \in Reqs : Past(r) /\ sel[r].User.set /\ sel[r].User.PasswordSet =>
        /\ outreq[r].Authorization.scheme = "Basic"
        /\ outreq[r].Authorization.cred = sel[r].User.Username \o <<":">> \o sel[r].User.Password

C5_Witness ==
    \E r \in Reqs :
        /\ pc[r] = "responded"
        /\ inreq[r].Authorization.scheme = "Bearer"
        /\ sel[r].User.PasswordSet
        /\ outreq[r].Authorization = [scheme |-> "Basic", cred |-> <<"user", ":", "pass">>]

\* C6: with a non-zero timeout, a request whose upstream takes at least the
\* timeout to answer ends with the configured error status and body, and the
\* upstream's response is not used.
C6_TimeoutGivesError ==
    \A r \in Reqs : pc[r] = "done" /\ timeout > 0 /\ lat[r] >= timeout =>
        /\ IsErrorResponse(rw[r])
        /\ upres[r] = NoResponse

C6_Witness ==
    \E r \in Reqs :
        /\ pc[r] = "done" /\ timeout > 0 /\ lat[r] >= timeout
        /\ Healthy(sel[r])
        /\ rw[r].Code = 503

\* C7: with a non-zero timeout the context the Director attached is not
\* cancelled when the round trip starts, and an upstream that answers before
\* the timeout has its response used.
C7_ContextLiveUntilDeadline ==
    \A r \in Reqs :
        /\ (pc[r] = "directed" /\ timeout > 0 => ~outreq[r].ctx.cancelled)
        /\ (pc[r] = "done" /\ timeout > 0 /\ Healthy(sel[r]) /\ lat[r] < timeout
                => upres[r] # NoResponse)

\* where the redirects of a target end
ChainEnd(loc) == IF loc = "http://t3" THEN "http://t1" ELSE loc

C9_NoFollowUnmodified ==
    \A r \in Reqs : pc[r] = "done" /\ ~followRedirects /\ upres[r] # NoResponse =>
        /\ gets[r] = <<>>
        /\ res[r] = upres[r]
        /\ handled[r] = 0
        /\ rw[r].Code = upres[r].StatusCode
        /\ fail[r] = "" => rw[r].Body = upres[r].Body
        /\ rw[r].Header = upres[r].Header

C9_Witness ==
    \E r \in Reqs :
        /\ pc[r] = "done" /\ ~followRedirects /\ fail[r] = ""
        /\ upres[r].StatusCode = 302
        /\ rw[r].Code = 302 /\ rw[r].Body = "redirect response"
        /\ rw[r].Header["Location"] = "http://t1"

\* C10: when no configured upstream is reachable the caller gets exactly the
\* configured error status and the configured error body (empty if that is
\* the empty string).
C10_UnreachableGivesConfiguredError ==
    \A r \in Reqs :
        pc[r] = "done" /\ (\A i \in 1..Len(urls) : ~Healthy(urls[i])) =>
            /\ rw[r].written
            /\ rw[r].Code = errorResponseCode
            /\ rw[r].Body = errorResponseBody
            /\ handled[r] = 1

C10_Witness ==
    \E r \in Reqs :
        /\ pc[r] = "done" /\ Len(urls) = 1 /\ ~Healthy(urls[1]) /\ timeout = 0
        /\ rw[r].Code = 503 /\ rw[r].Body = "Custom error message"

----------------------------------------------------------------------------
(* Properties, continued *)

Done(r) == pc[r] = "done"

\* failures that come from the caller or the upstream's answer, not from the proxy
EnvFailures == {"malformed response", "caller gone", "copy", "follow", "location", "dial"}

\* the response written is the one the modifier left, in full
IsUpstreamDerived(r) ==
    /\ rw[r].written /\ ~rw[r].aborted
    /\ rw[r].Code = res[r].StatusCode
    /\ rw[r].Body = res[r].Body
    /\ rw[r].Header = res[r].Header

\* C11 as stated: every failure of a request is routed to the Error Handler,
\* which runs at most once and leaves the configured error response.
C11_EveryFailureHandled ==
    \A r \in Reqs :
        /\ handled[r] <= 1
        /\ (Done(r) /\ fail[r] # "" => handled[r] = 1 /\ IsErrorResponse(rw[r]))

\* C11 amended: every failure before the response header is written (dial,
\* cancelled or expired context, malformed response, caller gone, failed
\* follow-up) is routed to the Error Handler, which runs at most once and is
\* terminal; a failure while the body is copied is not routed to it: the
\* caller has the upstream-derived status and headers and a body cut short.
\* The caller never gets a mix of error response and upstream response.
C11_FailureBeforeHeaderHandled ==
    \A r \in Reqs :
        /\ handled[r] <= 1
        /\ (handled[r] = 1 => Done(r))
        /\ (Done(r) /\ fail[r] \notin {""} \cup CopyFailures
                => handled[r] = 1 /\ IsErrorResponse(rw[r]) /\ ~rw[r].aborted)
        /\ (Done(r) /\ fail[r] \in CopyFailures
                => /\ handled[r] = 0 /\ rw[r].aborted
                   /\ rw[r].Code = res[r].StatusCode /\ rw[r].Header = res[r].Header)
        /\ (Done(r) /\ fail[r] = "" => handled[r] = 0 /\ IsUpstreamDerived(r))

C11_Witness ==
    \E r, q \in Reqs :
        /\ Done(r) /\ fail[r] = "copy" /\ rw[r].aborted /\ rw[r].Code = 200
        /\ Done(q) /\ fail[q] = "caller gone" /\ handled[q] = 1 /\ rw[q].Code = 503

\* C12: with followRedirects, when the Location parses but the follow-up GET
\* fails, the Error Handler runs: the caller gets the configured error status
\* and body, nothing of the redirect response.
C12_FollowUpFailureHandled ==
    \A r \in Reqs :
        (/\ Done(r) /\ followRedirects
         /\ upres[r].Header["Location"] # ""
         /\ ~TargetReachable(ChainEnd(upres[r].Header["Location"])))
        => /\ handled[r] = 1
           /\ IsErrorResponse(rw[r])
           /\ ~rw[r].aborted

C12_Witness ==
    \E r \in Reqs :
        /\ Done(r) /\ followRedirects
        /\ upres[r].StatusCode = 302 /\ upres[r].Header["Location"] = "http://t2"
        /\ gets[r] = <<"http://t2">>
        /\ rw[r].Code = 503 /\ rw[r].Body = "Custom error message"

ClonedHeaders == {"Content-Length", "Content-Encoding", "Content-Type"}

\* C13: after a redirect was followed with success, the response has the
\* follow-up's status text, status code, body and content length; each of
\* Content-Length, Content-Encoding and Content-Type is the follow-up's value,
\* or absent if the follow-up has none; Location is absent.
C13_CloneResponse ==
    \A r \in Reqs :
        Done(r) /\ gets[r] # <<>> /\ fail[r] \in {""} \cup CopyFailures =>
            LET from == TargetResponse(gets[r][Len(gets[r])])
            IN  /\ res[r].Status = from.Status
                /\ res[r].StatusCode = from.StatusCode
                /\ res[r].Body = from.Body
                /\ res[r].ContentLength = from.ContentLength
                /\ \A h \in ClonedHeaders : res[r].Header[h] = from.Header[h]
                /\ res[r].Header["Location"] = ""

C13_Witness ==
    \E r \in Reqs :
        /\ Done(r) /\ gets[r] = <<"http://t1">> /\ fail[r] = ""
        /\ upres[r].Header["Content-Encoding"] = "gzip"
        /\ res[r].Header["Content-Encoding"] = ""
        /\ res[r].Header["Content-Type"] = "text/plain"
        /\ res[r].Status = "200 OK"

C15_EmptyListFailsStartup ==
    /\ (phase = "serving" => Len(flags) > 0 /\ Len(urls) > 0)
    /\ (Len(flags) = 0 /\ phase # "startup" => phase = "panic")
    /\ \A r \in Reqs : Past(r) => Len(urls) > 0 /\ pc[r] # "panic"

C15_Witness ==
    /\ Len(flags) = 0
    /\ phase = "panic"
    /\ \A r \in Reqs : ~Past(r)

\* C16: the process serves only if every -url entry is an absolute URL with a
\* scheme and a host, and then the parsed list has the length and order of
\* the entries; a list with an entry that is not one is never served from.
C16_OnlyAbsoluteUrlsServe ==
    phase = "serving" =>
        /\ Len(urls) = Len(flags)
        /\ \A i \in 1..Len(urls) : urls[i].Scheme # "" /\ urls[i].Host # ""

\* C17: whatever was selected before, every member of the upstream list is a
\* possible result of the next loadBalance call, and in a run of calls every
\* member is selected at some time.
C17_NoStarvation ==
    /\ [](phase = "serving" => \A i \in 1..Len(urls) : ENABLED Select(urls[i]))
    /\ \A u \in Upstreams :
          (phase = "serving" /\ (\E i \in 1..Len(urls) : urls[i] = u)) ~> (u \in picked)

C17_Witness ==
    /\ phase = "serving"
    /\ Len(urls) = 2
    /\ picked = {urls[1], urls[2]}

\* C18: over healthy upstreams, in every interleaving, every request that no
\* caller or upstream failure hits is forwarded once and ends with its own
\* upstream-derived response.
C18_ConcurrentAllSucceed ==
    (\A i \in 1..Len(urls) : Healthy(urls[i])) =>
        /\ \A r \in Reqs : Done(r) /\ fail[r] \notin EnvFailures
              => fail[r] = "" /\ handled[r] = 0 /\ IsUpstreamDerived(r)
        /\ SumOver(received, Hosts) >=
              Cardinality({r \in Reqs : Done(r) /\ fail[r] \notin EnvFailures})

\* C19: with timeout 0 the Director leaves the request's context as it was,
\* without deadline, and a request to a reachable upstream that answers,
\* however late, is not aborted by the proxy: the caller gets the
\* upstream-derived response in full.
C19_NoTimeoutNoAbort ==
    timeout = 0 =>
        \A r \in Reqs :
            /\ (Past(r) => outreq[r].ctx = NoCtx)
            /\ (Done(r) /\ Healthy(sel[r]) /\ fail[r] \notin EnvFailures
                    => fail[r] = "" /\ IsUpstreamDerived(r))

\* C20: a follow-up request is sent only if followRedirects is set and the
\* upstream response is a 3xx with a Location; a response that is not a 3xx
\* is returned as it is even if it has a Location.
C20_FollowOnlyRedirects ==
    \A r \in Reqs :
        /\ (gets[r] # <<>> =>
                /\ followRedirects
                /\ upres[r].StatusCode \in 300..399
                /\ upres[r].Header["Location"] # "")
        /\ (Done(r) /\ fail[r] = "" /\ upres[r].StatusCode \notin 300..399
                => res[r] = upres[r] /\ rw[r].Code = upres[r].StatusCode)

\* C21 as stated: with followRedirects, a response whose Location does not
\* parse passes unmodified: no follow-up request, no Error Handler.
C21_BadLocationNoOp ==
    \A r \in Reqs :
        Done(r) /\ followRedirects /\ upres[r].Header["Location"] \in UnparseableLocations
            => /\ handled[r] = 0
               /\ gets[r] = <<>>
               /\ res[r] = upres[r]
               /\ fail[r] \in {""} \cup CopyFailures

\* C21 amended: with followRedirects, a response whose Location does not
\* parse makes the modifier return an error: no follow-up request is sent,
\* the Error Handler runs and the caller gets the configured error response.
C21_BadLocationIsError ==
    \A r \in Reqs :
        Done(r) /\ followRedirects /\ upres[r].Header["Location"] \in UnparseableLocations
            => /\ handled[r] = 1
               /\ gets[r] = <<>>
               /\ fail[r] = "location"
               /\ IsErrorResponse(rw[r])

C21_Witness ==
    \E r \in Reqs :
        /\ Done(r) /\ followRedirects
        /\ upres[r].StatusCode = 302 /\ upres[r].Header["Location"] = "://bad"
        /\ handled[r] = 1
        /\ rw[r].Code = 503 /\ rw[r].Body = "Custom error message"

\* C22: with followRedirects, a response without Location is left as it is in
\* status, headers and body; no follow-up request is sent and no error is
\* reported.
C22_NoLocationUnmodified ==
    \A r \in Reqs :
        (/\ Done(r) /\ followRedirects
         /\ upres[r] # NoResponse /\ upres[r].Header["Location"] = "")
        => /\ gets[r] = <<>>
           /\ handled[r] = 0
           /\ res[r] = upres[r]
           /\ fail[r] \in {""} \cup CopyFailures
           /\ (fail[r] = "" => /\ rw[r].Code = upres[r].StatusCode
                               /\ rw[r].Header = upres[r].Header
                               /\ rw[r].Body = upres[r].Body)

C22_Witness ==
    \E r \in Reqs :
        /\ Done(r) /\ followRedirects /\ fail[r] = ""
        /\ upres[r].StatusCode = 200 /\ upres[r].Header["Location"] = ""
        /\ rw[r].Code = 200 /\ rw[r].Body = "backend response"
        /\ rw[r].Header["X-Up"] = "up"

\* C23: after a redirect was followed, every header of the upstream response
\* other than Content-Length, Content-Encoding, Content-Type and Location has
\* the value the upstream gave it, and no other header of the follow-up
\* response, its Location included, is in the response.
C23_OtherHeadersKept ==
    \A r \in Reqs :
        Done(r) /\ gets[r] # <<>> /\ fail[r] \in {""} \cup CopyFailures =>
            /\ \A h \in HeaderNames \ (ClonedHeaders \cup {"Location"}) :
                    res[r].Header[h] = upres[r].Header[h]
            /\ res[r].Header["Location"] = ""
            /\ rw[r].Header = res[r].Header

C23_Witness ==
    \E r \in Reqs :
        /\ Done(r) /\ gets[r] # <<>> /\ fail[r] = ""
        /\ TargetResponse(gets[r][Len(gets[r])]).Header["Set-Cookie"] = "sid=1"
        /\ TargetResponse(gets[r][Len(gets[r])]).Header["Location"] = "http://t1/self"
        /\ upres[r].Header["X-Up"] = "up"
        /\ rw[r].Header["X-Up"] = "up"
        /\ rw[r].Header["Set-Cookie"] = ""
        /\ rw[r].Header["Location"] = ""

\* C24: whenever the selected upstream has user info, with or without a
\* password, the outbound request has the Basic Authorization of that user
\* info.
C24_BasicAuthForAnyUserInfo ==
    \A r \in Reqs :
        Past(r) /\ sel[r].User.set
            => outreq[r].Authorization = basicAuth(sel[r].User.Username, sel[r].User.Password)

C26_ConfigReadOnly ==
    [][phase = "serving" =>
            /\ urls' = urls
            /\ timeout' = timeout
            /\ errorResponseCode' = errorResponseCode
            /\ errorResponseBody' = errorResponseBody
            /\ followRedirects' = followRedirects]_vars

C26_Witness ==
    \E r \in Reqs :
        /\ phase = "serving" /\ Done(r)
        /\ \E i \in 1..Len(urls) : urls[i] = sel[r]
        /\ outreq[r].Path # sel[r].Path
        /\ urls = toURLs(flags).urls

\* C27: with a non-zero timeout, when the context of one request was
\* cancelled or has expired, another request whose upstream answers within
\* the timeout is not aborted: it ends with its upstream's response.
C27_OwnDeadlineOnly ==
    timeout > 0 =>
        \A r, q \in Reqs :
            (/\ r # q
             /\ Done(q) /\ fail[q] \in {"context canceled", "context deadline exceeded"}
             /\ Done(r) /\ Healthy(sel[r]) /\ lat[r] < timeout
             /\ fail[r] \notin EnvFailures)
            => fail[r] = ""

C29_FollowUpIsFreshGet ==
    \A r \in Reqs :
        gets[r] # <<>> =>
            /\ getreq[r].Method = "GET"
            /\ getreq[r].URL = upres[r].Header["Location"]
            /\ getreq[r].Body = ""
            /\ getreq[r].Authorization = NoAuth
            /\ getreq[r].XRequestId = ""

C29_Witness ==
    \E r \in Reqs :
        /\ gets[r] # <<>>
        /\ inreq[r].Method = "POST" /\ inreq[r].XRequestId = "id7"
        /\ outreq[r].Authorization = [scheme |-> "Basic", cred |-> <<"user", ":", "pass">>]
        /\ getreq[r].Method = "GET" /\ getreq[r].URL = "http://t1"
        /\ getreq[r].Authorization = NoAuth

\* C30: when a request has ended, every response body opened for it is
\* closed.
C30_AllBodiesClosed ==
    \A r \in Reqs : Done(r) => openBodies[r] = {}

====
